---- MODULE Spec2Model ----
(***************************************************************************)
(* Carousel (components/Carousel/Carousel.js): the scroll navigator.       *)
(*                                                                         *)
(* All lengths are whole CSS pixels.  The scroll container is a row of     *)
(* items laid out without gaps; its DOM properties are derived from the    *)
(* layout: scrollWidth = max(clientWidth, sum of item widths), and the     *)
(* scrollLeft setter clamps to [0, scrollWidth - clientWidth].             *)
(* onScroll's argument is kept as a number of hundredths, which is exact   *)
(* for the result of toFixed(2).                                           *)
(***************************************************************************)
EXTENDS Integers, Sequences, FiniteSets, TLC

\* ---------------------------------------------------------------- bounds
MaxItems == 3

\* Layouts the model explores (pixels).
ItemWidths == {50, 100, 150}
ViewportWidths == {0, 100, 200, 300}
ContainerLefts == {0, 200}

VARIABLES
    widths,            \* item i's rendered width (getBoundingClientRect().width)
    clientWidth,       \* scrollRef.current.clientWidth
    containerLeft,     \* scrollRef.current.getBoundingClientRect().left
    scrollLeft,        \* scrollRef.current.scrollLeft
    mounted,           \* scrollRef.current is an element (not null)
    timerPending,      \* the setTimeout(0) of the first-render effect has not fired
    listeners,         \* number of registered listeners per event kind
    pendingScrollend,  \* the offset moved and its scrollend event is not yet delivered
    calls,             \* callbacks invoked by the last step, in order
    thrown,            \* the last step raised a TypeError
    reported,          \* the last value passed to onChangeIsScrollable ("none" before the first)
    lastOp,            \* the operation of the last step
    prevOp,            \* the operation of the step before it
    \* CoachmarkDragbar
    dragbarMounted,    \* the CoachmarkDragbar is mounted
    isDragging,        \* its isDragging state
    dragListeners,     \* number of its listeners registered on window, per event kind
    pressed,           \* the mouse went down on the drag handle and has not come up since
    dragCalls          \* onDrag calls made by the last step, in order

carouselVars == <<widths, clientWidth, containerLeft, scrollLeft, mounted, timerPending,
                  listeners, pendingScrollend, calls, reported, thrown>>

dragbarVars == <<dragbarMounted, isDragging, dragListeners, pressed, dragCalls>>

vars == <<carouselVars, dragbarVars, lastOp, prevOp>>

layout == <<widths, clientWidth, containerLeft>>

\* ---------------------------------------------------------------- arithmetic
Min(a, b) == IF a < b THEN a ELSE b

Max(a, b) == IF a > b THEN a ELSE b

Abs(a) == IF a < 0 THEN -a ELSE a

RECURSIVE SumSeq(_)
SumSeq(s) == IF s = <<>> THEN 0 ELSE s[1] + SumSeq(Tail(s))

\* JavaScript number results the percent computation can produce.
NaN == [kind |-> "NaN", hundredths |-> 0]

Infinity == [kind |-> "Infinity", hundredths |-> 0]

Finite(h) == [kind |-> "finite", hundredths |-> h]

\* (n / d).toFixed(2) followed by parseFloat: NaN and Infinity print and parse
\* as themselves; a finite quotient is rounded to two decimals, ties away
\* from zero (toFixed picks the larger n for the magnitude).
ToFixed2(n, d) ==
    IF d = 0
    THEN (IF n = 0 THEN NaN ELSE Infinity)
    ELSE LET mag == (200 * Abs(n) + Abs(d)) \div (2 * Abs(d))
             neg == (n < 0) # (d < 0)
         IN  Finite(IF neg THEN -mag ELSE mag)

\* Variant: the "|| 0" fallback is missing.
OrZeroDropped(x) == x

\* x || 0: NaN and 0 are falsy, every other number (Infinity too) is kept.
OrZero(x) == IF x.kind = "NaN" \/ (x.kind = "finite" /\ x.hundredths = 0)
             THEN Finite(0) ELSE x

\* parseInt(x, 10) of a number of pixels: truncation toward zero.  Offsets
\* here are whole pixels, which it leaves as they are.
ParseInt(x) == IF x < 0 THEN -((-x) \div 1) ELSE x \div 1

\* ---------------------------------------------------------------- DOM layout
\* Content x-coordinate of item i's right edge (items are laid out in a row).
Prefix(i) == SumSeq(SubSeq(widths, 1, i))

\* scrollRef.current.scrollWidth in a viewport of width cw: the content's
\* width, never below clientWidth.
ScrollWidth(cw) == Max(cw, SumSeq(widths))

\* Variant: an offset beyond the end of the content is kept as requested.
SetScrollLeftUnclamped(x, cw) == Max(0, x)

\* The scrollLeft setter: the browser clamps the requested offset to the
\* scrollable range of a layout with content width sw and viewport width cw.
SetScrollLeft(x, cw) == Max(0, Min(x, ScrollWidth(cw) - cw))

\* scrollRef.current.getBoundingClientRect()
ContainerRect ==
    [left  |-> containerLeft,
     right |-> containerLeft + clientWidth,
     width |-> clientWidth]

\* childElementsRef.current[i].getBoundingClientRect()
ElementRect(i) ==
    [left  |-> containerLeft + Prefix(i - 1) - scrollLeft,
     right |-> containerLeft + Prefix(i) - scrollLeft,
     width |-> widths[i]]

\* ---------------------------------------------------------------- Carousel
\* getWidths() when the DOM has viewport width cw and offset sl.
getWidths(cw, sl) ==
    [clientWidth |-> cw,
     itemWidths  |-> SumSeq(widths),
     scrollLeft  |-> ParseInt(sl),
     scrollWidth |-> ScrollWidth(cw)]

\* Variant: the offset is divided by the viewport width.
ScrollPercentOfViewport(w) == OrZero(ToFixed2(w.scrollLeft, w.clientWidth))

\* The percent handleScroll computes from getWidths().
ScrollPercent(w) ==
    LET scrollLeftMax == w.scrollWidth - w.clientWidth
    IN  OrZero(ToFixed2(w.scrollLeft, scrollLeftMax))

\* Variant: content that exactly fits counts as scrollable (>= for >).
handleScrollGe(cw, sl) ==
    LET w == getWidths(cw, sl)
    IN  << [cb |-> "onChangeIsScrollable", arg |-> w.scrollWidth >= w.clientWidth],
           [cb |-> "onScroll",             arg |-> ScrollPercent(w)] >>

\* The callbacks one run of handleScroll makes, in order (scrollRef.current
\* is an element).
handleScroll(cw, sl) ==
    LET w == getWidths(cw, sl)
    IN  << [cb |-> "onChangeIsScrollable", arg |-> w.scrollWidth > w.clientWidth],
           [cb |-> "onScroll",             arg |-> ScrollPercent(w)] >>

getElementInView(containerRect, elementRect) ==
    LET leftIsRightOfContainerLeft  == elementRect.left >= containerRect.left
        rightIsLeftOfContainerRight == elementRect.right <= containerRect.right
    IN  leftIsRightOfContainerLeft /\ rightIsLeftOfContainerRight

\* Indices of the items in view, in child order.
getElementsInView ==
    SelectSeq([i \in 1..Len(widths) |-> i],
              LAMBDA i : getElementInView(ContainerRect, ElementRect(i)))

\* elRectsInView.reduce((acc, curVal) => acc + curVal.width, 0)
VisibleWidth(inView) == SumSeq([k \in 1..Len(inView) |-> ElementRect(inView[k]).width])

\* Variant: always a viewport's width.
NextScrollValueViewport == ContainerRect.width

NextScrollValue ==
    LET visibleWidth == VisibleWidth(getElementsInView)
    IN  IF visibleWidth > 0 THEN visibleWidth ELSE ContainerRect.width

\* Variant: the first visible item's left is not subtracted.
PrevScrollValueNoLeft ==
    LET visibleWidth == VisibleWidth(getElementsInView)
    IN  IF visibleWidth > 0
        THEN visibleWidth
        ELSE ContainerRect.width + ContainerRect.left

PrevScrollValue ==
    LET inView       == getElementsInView
        visibleWidth == VisibleWidth(inView)
    IN  IF visibleWidth > 0
        THEN visibleWidth - ElementRect(inView[1]).left
        ELSE ContainerRect.width + ContainerRect.left

\* The offsets the handlers assign to scrollRef.current.scrollLeft.
handleNext == scrollLeft + NextScrollValue

\* Variant: the scroll value is added instead of subtracted.
handlePrevForward == scrollLeft + PrevScrollValue

handlePrev == scrollLeft - PrevScrollValue

\* Variant: the offset is left where it is.
handleResetKeep == scrollLeft

handleReset == 0

\* Variant: the offset is zeroed but handleScroll is not called.
handleWindowResizeSilent(cw) ==
    [scrollLeft |-> SetScrollLeft(0, cw), calls |-> <<>>]

\* handleWindowResize in a viewport of width cw: the offset it leaves and the
\* callbacks it makes.
handleWindowResize(cw) ==
    LET zeroed == SetScrollLeft(0, cw)
    IN  [scrollLeft |-> zeroed, calls |-> handleScroll(cw, zeroed)]

\* n copies of a handler's calls: one run per registered listener.
RECURSIVE Repeat(_, _)
Repeat(s, n) == IF n = 0 THEN <<>> ELSE s \o Repeat(s, n - 1)

\* Every step that assigns scrollLeft: the offset moves, and a move is
\* followed by a scrollend event.
Scrolled(newLeft) ==
    /\ scrollLeft' = newLeft
    /\ pendingScrollend' = (pendingScrollend \/ newLeft # scrollLeft)

\* The callbacks a step makes; the host keeps the last value it was given by
\* onChangeIsScrollable (handleScroll's calls come in pairs, that one first).
Called(cs) ==
    /\ calls' = cs
    /\ reported' = IF cs = <<>> THEN reported
                   ELSE IF cs[Len(cs) - 1].arg THEN "true" ELSE "false"

\* Bookkeeping of every step.
Step(op) ==
    /\ lastOp' = op
    /\ prevOp' = lastOp

\* A step of the Carousel: it makes no onDrag call.
CarouselStep(op) ==
    /\ Step(op)
    /\ dragCalls' = <<>>
    /\ UNCHANGED <<dragbarMounted, isDragging, dragListeners, pressed>>

\* ---------------------------------------------------------------- initial state
\* Mounted, all effects run, the first-render timer armed.
Layouts == UNION {[1..n -> ItemWidths] : n \in 1..MaxItems}

MountedListeners == [resize |-> 1, scrollend |-> 1, wheel |-> 1, keydown |-> 1]

NoListeners == [resize |-> 0, scrollend |-> 0, wheel |-> 0, keydown |-> 0]

Init ==
    /\ widths \in Layouts
    /\ clientWidth \in ViewportWidths
    /\ containerLeft \in ContainerLefts
    /\ scrollLeft = 0
    /\ mounted = TRUE
    /\ timerPending = TRUE
    /\ listeners = MountedListeners
    /\ pendingScrollend = FALSE
    /\ calls = <<>>
    /\ reported = "none"
    /\ thrown = FALSE
    /\ lastOp = "mount"
    /\ prevOp = "none"
    /\ dragbarMounted = TRUE
    /\ isDragging = FALSE
    /\ dragListeners = [mouseup |-> 1, mousemove |-> 0]
    /\ pressed = FALSE
    /\ dragCalls = <<>>

\* ---------------------------------------------------------------- operations
\* ref.current.scrollNext()
scrollNext ==
    /\ mounted
    /\ Scrolled(SetScrollLeft(handleNext, clientWidth))
    /\ Called(<<>>)
    /\ thrown' = FALSE
    /\ CarouselStep("scrollNext")
    /\ UNCHANGED <<layout, mounted, timerPending, listeners>>

\* ref.current.scrollPrev()
scrollPrev ==
    /\ mounted
    /\ Scrolled(SetScrollLeft(handlePrev, clientWidth))
    /\ Called(<<>>)
    /\ thrown' = FALSE
    /\ CarouselStep("scrollPrev")
    /\ UNCHANGED <<layout, mounted, timerPending, listeners>>

\* ref.current.scrollReset()
scrollReset ==
    /\ mounted
    /\ Scrolled(SetScrollLeft(handleReset, clientWidth))
    /\ Called(<<>>)
    /\ thrown' = FALSE
    /\ CarouselStep("scrollReset")
    /\ UNCHANGED <<layout, mounted, timerPending, listeners>>

\* The scroll container's scrollend event: every registered listener runs
\* handleScrollend, which runs handleScroll.
Scrollend ==
    /\ pendingScrollend
    /\ pendingScrollend' = FALSE
    /\ Called(Repeat(handleScroll(clientWidth, scrollLeft), listeners.scrollend))
    /\ thrown' = FALSE
    /\ CarouselStep("scrollend")
    /\ UNCHANGED <<layout, scrollLeft, mounted, timerPending, listeners>>

\* The window is resized: the container gets a new width and position (a
\* container removed from the document has no layout left to change), the
\* browser re-clamps the offset to the new range, and every registered
\* resize listener runs handleWindowResize.
WindowResize ==
    \E cw \in ViewportWidths, cl \in ContainerLefts :
        LET relaid  == SetScrollLeft(scrollLeft, cw)
            handled == handleWindowResize(cw)
        IN  /\ mounted \/ (cw = clientWidth /\ cl = containerLeft)
            /\ clientWidth' = cw
            /\ containerLeft' = cl
            /\ Scrolled(IF listeners.resize > 0 THEN handled.scrollLeft ELSE relaid)
            /\ Called(Repeat(handled.calls, listeners.resize))
            /\ thrown' = FALSE
            /\ CarouselStep("resize")
            /\ UNCHANGED <<widths, mounted, timerPending, listeners>>

\* The first-render timer fires.  After unmount the refs are null and
\* getWidths dereferences them.
InitialTimer ==
    /\ timerPending
    /\ timerPending' = FALSE
    /\ IF mounted
       THEN Called(handleScroll(clientWidth, scrollLeft)) /\ thrown' = FALSE
       ELSE Called(<<>>) /\ thrown' = TRUE
    /\ CarouselStep("timer")
    /\ UNCHANGED <<layout, scrollLeft, mounted, listeners, pendingScrollend>>

\* Variant: the cleanup does not remove the listener.
RerunEffectNoCleanup(n) == n + 1

\* An effect re-runs: its cleanup removes the listener, its setup adds one.
RerunEffect(n) == (n - 1) + 1

\* The host passes new onScroll / onChangeIsScrollable callbacks: handleScroll
\* changes identity and the resize and scrollend effects re-run.
Rerender ==
    /\ mounted
    /\ listeners' = [listeners EXCEPT !.resize = RerunEffect(@),
                                      !.scrollend = RerunEffect(@)]
    /\ Called(<<>>)
    /\ thrown' = FALSE
    /\ CarouselStep("rerender")
    /\ UNCHANGED <<layout, scrollLeft, mounted, timerPending, pendingScrollend>>

\* The component unmounts: cleanups run, the refs become null.
Unmount ==
    /\ mounted
    /\ mounted' = FALSE
    /\ listeners' = NoListeners
    /\ Called(<<>>)
    /\ thrown' = FALSE
    /\ CarouselStep("unmount")
    /\ UNCHANGED <<layout, scrollLeft, timerPending, pendingScrollend>>

Next ==
    \/ scrollNext
    \/ scrollPrev
    \/ scrollReset
    \/ Scrollend
    \/ WindowResize
    \/ InitialTimer
    \/ Rerender
    \/ Unmount

Spec == Init /\ [][Next]_vars

\* An item's rendered width changes (its content is laid out anew) without
\* any window resize: the browser re-clamps the offset to the new range and
\* no handler of the Carousel runs.
ItemResize ==
    \E i \in 1..Len(widths) : \E w \in ItemWidths \ {widths[i]} :
        LET resized == [widths EXCEPT ![i] = w]
            relaid  == Max(0, Min(scrollLeft,
                                  Max(clientWidth, SumSeq(resized)) - clientWidth))
        IN  /\ mounted
            /\ widths' = resized
            /\ Scrolled(relaid)
            /\ Called(<<>>)
            /\ thrown' = FALSE
            /\ CarouselStep("itemResize")
            /\ UNCHANGED <<clientWidth, containerLeft, mounted, timerPending, listeners>>

NextContent ==
    \/ Next
    \/ ItemResize

\* The browser delivers a pending scrollend event and fires an armed timer;
\* the host and the user are free never to act.
SpecContent ==
    /\ Init
    /\ [][NextContent]_vars
    /\ WF_vars(Scrollend)
    /\ WF_vars(InitialTimer)


\* ---------------------------------------------------------------- CoachmarkDragbar
\* Mouse movements a mousemove event can carry (movementX, movementY).
Movements == {0, 1}

\* A step of the CoachmarkDragbar: it makes no call of the Carousel's.
DragbarStep(op) ==
    /\ Step(op)
    /\ Called(<<>>)
    /\ thrown' = FALSE
    /\ UNCHANGED <<layout, scrollLeft, mounted, timerPending, listeners,
                   pendingScrollend>>

\* Variant: the cleanup leaves the handler registered.
DragCleanupLeak(n, dragging) == n

\* The cleanup of the mousemove effect of a render in which isDragging was
\* dragging: removeEventListener removes the handler if it was added.
DragCleanup(n, dragging) == IF dragging THEN n - 1 ELSE n

\* Variant: the handler is added whether dragging or not.
DragSetupAlways(n, dragging) == n + 1

\* The setup of the mousemove effect: the handler is added while dragging.
DragSetup(n, dragging) == IF dragging THEN n + 1 ELSE n

\* setIsDragging(value) and the render that follows: the mousemove effect
\* re-runs when isDragging changed.
setIsDragging(value) ==
    /\ isDragging' = value
    /\ dragListeners' =
           IF value = isDragging THEN dragListeners
           ELSE [dragListeners EXCEPT
                    !.mousemove = DragSetup(DragCleanup(@, isDragging), value)]

\* mousedown on the drag handle: handleDragStart.
DragMouseDown ==
    /\ dragbarMounted
    /\ setIsDragging(TRUE)
    /\ pressed' = TRUE
    /\ dragCalls' = <<>>
    /\ DragbarStep("mousedown")
    /\ UNCHANGED dragbarMounted

\* mouseup on window: every registered listener runs handleDragStop.
DragMouseUp ==
    /\ IF dragListeners.mouseup > 0
       THEN setIsDragging(FALSE)
       ELSE UNCHANGED <<isDragging, dragListeners>>
    /\ pressed' = FALSE
    /\ dragCalls' = <<>>
    /\ DragbarStep("mouseup")
    /\ UNCHANGED dragbarMounted

\* mousemove on window: every registered listener runs handleDrag, which
\* calls onDrag(event.movementX, event.movementY).
DragMouseMove ==
    \E x \in Movements, y \in Movements :
        /\ dragCalls' = Repeat(<< <<x, y>> >>, dragListeners.mousemove)
        /\ DragbarStep("mousemove")
        /\ UNCHANGED <<dragbarMounted, isDragging, dragListeners, pressed>>

\* The host passes a new onDrag: the mousemove effect re-runs.
DragRerender ==
    /\ dragbarMounted
    /\ dragListeners' = [dragListeners EXCEPT
                            !.mousemove = DragSetup(DragCleanup(@, isDragging), isDragging)]
    /\ dragCalls' = <<>>
    /\ DragbarStep("dragRerender")
    /\ UNCHANGED <<dragbarMounted, isDragging, pressed>>

\* The CoachmarkDragbar unmounts: both effects' cleanups run.
DragUnmount ==
    /\ dragbarMounted
    /\ dragbarMounted' = FALSE
    /\ dragListeners' = [mouseup   |-> dragListeners.mouseup - 1,
                         mousemove |-> DragCleanup(dragListeners.mousemove, isDragging)]
    /\ dragCalls' = <<>>
    /\ DragbarStep("dragUnmount")
    /\ UNCHANGED <<isDragging, pressed>>

\* The host toggles disableArrowScroll: the Carousel's keydown effect re-runs.
RerenderArrowScroll ==
    /\ mounted
    /\ listeners' = [listeners EXCEPT !.keydown = RerunEffect(@)]
    /\ Called(<<>>)
    /\ thrown' = FALSE
    /\ CarouselStep("rerenderArrowScroll")
    /\ UNCHANGED <<layout, scrollLeft, mounted, timerPending, pendingScrollend>>

\* One Carousel (three items of 150) and one CoachmarkDragbar on a page.
InitListeners ==
    /\ Init
    /\ widths = <<150, 150, 150>>

NextListeners ==
    \/ Next
    \/ RerenderArrowScroll
    \/ DragMouseDown
    \/ DragMouseUp
    \/ DragMouseMove
    \/ DragRerender
    \/ DragUnmount

SpecListeners == InitListeners /\ [][NextListeners]_vars

\* ---------------------------------------------------------------- properties
\* The vocabulary of the properties, in content coordinates (x = 0 at the
\* left edge of the first item).
ContentWidth == SumSeq(widths)

\* scrollWidth - clientWidth
MaxOffset == IF ContentWidth > clientWidth THEN ContentWidth - clientWidth ELSE 0

InRange(x) == IF x < 0 THEN 0 ELSE IF x > MaxOffset THEN MaxOffset ELSE x

\* Item i's bounding box lies entirely within the viewport.
FullyVisible(i) ==
    /\ Prefix(i - 1) >= scrollLeft
    /\ Prefix(i) <= scrollLeft + clientWidth

FullyVisibleSum ==
    SumSeq([i \in 1..Len(widths) |-> IF FullyVisible(i) THEN widths[i] ELSE 0])

FirstFullyVisible ==
    CHOOSE i \in 1..Len(widths) :
        FullyVisible(i) /\ \A j \in 1..(i - 1) : ~FullyVisible(j)

\* Some item's left edge is at the viewport's left edge.
LeftAligned == \E i \in 1..Len(widths) : Prefix(i - 1) = scrollLeft

\* The arguments the last step passed to onScroll.
OnScrollArgs == {calls[k].arg : k \in {j \in 1..Len(calls) : calls[j].cb = "onScroll"}}

\* scrollLeft / (scrollWidth - clientWidth) to two decimals, 0 when the
\* content fits.
ExpectedPercent ==
    IF MaxOffset = 0 THEN Finite(0)
    ELSE Finite((200 * scrollLeft + MaxOffset) \div (2 * MaxOffset))

C2_PercentInUnitInterval ==
    ContentWidth > clientWidth =>
        \A a \in OnScrollArgs :
            a.kind = "finite" /\ 0 <= a.hundredths /\ a.hundredths <= 100

\* A report strictly inside the interval.
C2_Witness ==
    /\ ContentWidth > clientWidth
    /\ \E a \in OnScrollArgs : a.kind = "finite" /\ 0 < a.hundredths /\ a.hundredths < 100

\* C3: when scrollWidth <= clientWidth, a report is onChangeIsScrollable(false)
\* followed by onScroll(0).
C3_NotScrollableReportsZero ==
    (ContentWidth <= clientWidth /\ calls # <<>>) =>
        /\ Len(calls) = 2
        /\ calls[1].cb = "onChangeIsScrollable" /\ calls[1].arg = FALSE
        /\ calls[2].cb = "onScroll" /\ calls[2].arg = Finite(0)

\* A report made while the content is narrower than the viewport.
C3_Witness ==
    /\ ContentWidth < clientWidth
    /\ Len(calls) = 2

C5_ResetReportsZero ==
    ((prevOp = "scrollReset" /\ lastOp = "scrollend") \/ lastOp = "resize") =>
        \A a \in OnScrollArgs : a = Finite(0)

\* A report delivered right after scrollReset in a scrollable carousel.
C5_Witness ==
    /\ prevOp = "scrollReset"
    /\ lastOp = "scrollend"
    /\ MaxOffset > 0
    /\ OnScrollArgs # {}

\* The scenario of C6: three items of width 150 in a viewport of width 300.
C6_Scenario == widths = <<150, 150, 150>> /\ clientWidth = 300

C7_LeftMostItemAligned ==
    /\ [](lastOp \in {"scrollNext", "scrollPrev"} =>
             (LeftAligned \/ scrollLeft = MaxOffset))
    /\ [][(MaxOffset > 0 /\ scrollLeft = MaxOffset /\ lastOp' = "scrollPrev")
             => LeftAligned']_vars

\* C8: scrollNext moves the offset right by the summed widths of the fully
\* visible items if that sum is positive and by the viewport width otherwise,
\* held to the scrollable range; it changes nothing else and calls nothing.
C8_AdvanceDelta ==
    [][lastOp' = "scrollNext" =>
          /\ scrollLeft' = InRange(scrollLeft + (IF FullyVisibleSum > 0
                                                 THEN FullyVisibleSum
                                                 ELSE clientWidth))
          /\ calls' = <<>>
          /\ UNCHANGED <<layout, mounted, timerPending, listeners>>]_vars

\* scrollNext has moved the offset to the middle of the range.
C8_Witness ==
    /\ lastOp = "scrollNext"
    /\ 0 < scrollLeft
    /\ scrollLeft < MaxOffset

C10_ScrollendReportsOnce ==
    (mounted /\ lastOp = "scrollend") =>
        /\ Len(calls) = 2
        /\ calls[1].cb = "onChangeIsScrollable"
        /\ calls[1].arg = (ContentWidth > clientWidth)
        /\ calls[2].cb = "onScroll"
        /\ calls[2].arg = ExpectedPercent

\* A scrollend report of a positive percent, after the effects re-ran.
C10_Witness ==
    /\ mounted
    /\ prevOp = "rerender"
    /\ lastOp = "scrollend"
    /\ Len(calls) = 2
    /\ calls[2].arg.hundredths > 0

\* C13: when the first-render timer fires after unmount, the deferred
\* handleScroll calls neither onChangeIsScrollable nor onScroll and raises
\* no error.
C13_TimerAfterUnmountSafe ==
    (lastOp = "timer" /\ ~mounted) => (calls = <<>> /\ ~thrown)

\* C15: from an offset greater than 0, scrollPrev strictly decreases the
\* offset (so that repeating it reaches 0), whatever the item widths and the
\* container's left coordinate.
C15_RetreatDecreases ==
    [][(scrollLeft > 0 /\ lastOp' = "scrollPrev") => scrollLeft' < scrollLeft]_vars

\* scrollWidth > clientWidth, as the host would see it reported.
IsScrollable == IF ContentWidth > clientWidth THEN "true" ELSE "false"

\* The host's last report (if any) is not the carousel's scrollability.
Unreported == mounted /\ reported # "none" /\ reported # IsScrollable

\* C11 as stated: every change of scrollability is followed by a call of
\* onChangeIsScrollable carrying the new value.
C11_ChangeIsReported == Unreported ~> (~mounted \/ reported = IsScrollable)

\* C11 as amended: the first-render tick, every scrollend and every window
\* resize of a mounted carousel call onChangeIsScrollable first, with the
\* scrollability at that moment; a change of an item's width calls nothing.
C11_ReportedOnEvents ==
    /\ (mounted /\ lastOp \in {"timer", "scrollend", "resize"}) =>
           /\ calls # <<>>
           /\ calls[1].cb = "onChangeIsScrollable"
           /\ calls[1].arg = (ContentWidth > clientWidth)
           /\ reported = IsScrollable
    /\ lastOp = "itemResize" => calls = <<>>

\* After an item's width changed, a window resize has reported that the
\* carousel is scrollable.
C11_Witness ==
    /\ mounted
    /\ prevOp = "itemResize"
    /\ lastOp = "resize"
    /\ calls # <<>>
    /\ calls[1].arg = TRUE
    /\ reported = "true"

\* C12: each component keeps exactly the listeners of its current effects:
\* a mounted Carousel one per kind (resize, scrollend, wheel, keydown), a
\* mounted CoachmarkDragbar one mouseup listener and one mousemove listener
\* while dragging, never more than one of a kind, and none after unmount.
C12_ListenersScoped ==
    /\ listeners = IF mounted THEN MountedListeners ELSE NoListeners
    /\ dragListeners.mouseup = IF dragbarMounted THEN 1 ELSE 0
    /\ dragListeners.mousemove = IF dragbarMounted /\ isDragging THEN 1 ELSE 0

\* The CoachmarkDragbar was unmounted in the middle of a drag, right after
\* its mousemove effect had re-run, and the Carousel is unmounted too.
C12_Witness ==
    /\ ~mounted
    /\ ~dragbarMounted
    /\ isDragging
    /\ prevOp = "dragRerender"
    /\ lastOp = "dragUnmount"
    /\ dragListeners = [mouseup |-> 0, mousemove |-> 0]

====
